---------------------------- MODULE Spec2Model ----------------------------
(***************************************************************************)
(* A model of bucket.py: the three editor-mediated read-modify-write       *)
(* flows (read_entry, edit_transactions, edit_categories) and the          *)
(* category/subcategory resolver used by spend_entry.                      *)
(*                                                                         *)
(* Text is a sequence of one-character strings.  The remote server, the    *)
(* file system, the external editor and the user at the console are the    *)
(* environment: every answer they can give is drawn with \E in the action  *)
(* that asks for it.  log is the history of the calls made by the          *)
(* operation in progress; it is what the ordering properties read.         *)
(***************************************************************************)
EXTENDS Integers, Sequences, FiniteSets, TLC

\* Longest text the server or the editor hands back.
MaxLen == 2
\* Most remote create calls that fail during one resolution.
MaxFailedCreates == 2

HTTP_OK == 200
HTTP_CREATED == 201

\* ---------------------------------------------------------------- text --
Chars == {"0", "-", " "}

RECURSIVE SeqsUpTo(_, _)
SeqsUpTo(S, n) ==
    IF n = 0 THEN {<<>>}
    ELSE LET shorter == SeqsUpTo(S, n - 1)
         IN  shorter \cup {Append(s, c) : s \in {t \in shorter : Len(t) = n - 1}, c \in S}

Texts == SeqsUpTo(Chars, MaxLen)

IsSpace(c) == c = " "

RECURSIVE LStrip(_)
LStrip(s) == IF s = <<>> THEN s
             ELSE IF IsSpace(Head(s)) THEN LStrip(Tail(s)) ELSE s

RECURSIVE RStrip(_)
RStrip(s) == IF s = <<>> THEN s
             ELSE IF IsSpace(s[Len(s)]) THEN RStrip(SubSeq(s, 1, Len(s) - 1)) ELSE s

\* str.strip(): leading and trailing whitespace removed.
strip(s) == RStrip(LStrip(s))

LowerChar(c) == CASE c = "Y" -> "y" [] c = "N" -> "n" [] OTHER -> c

\* str.lower()
lower(s) == [i \in 1..Len(s) |-> LowerChar(s[i])]

\* response.json(): over Chars the only JSON documents are 0 and -0 with
\* optional surrounding whitespace, and both are the integer 0; the body {}
\* is the empty object; anything else (an empty body, a lone sign, 00,
\* 0 0, ...) raises.  A value is held as its canonical text.
ValueError == <<"ValueError">>
json_loads(s) ==
    LET body == strip(s)
    IN  IF body \in {<<"0">>, <<"-", "0">>} THEN <<"0">>
        ELSE IF body = <<"{", "}">> THEN <<"{", "}">>
        ELSE ValueError

\* json.dumps(v, indent=2): an integer gives its digits, the empty object {}.
json_dumps(v) == v

\* ------------------------------------------------------------ responses --
\* A call to the server either raises (a transport exception) or returns a
\* status and a body.
Raised == [exc |-> TRUE, status |-> 0, text |-> <<>>]
Responses(statuses, texts) ==
    {Raised} \cup [exc : {FALSE}, status : statuses, text : texts]

FetchStatuses == {HTTP_OK, 404}
PutStatuses == {HTTP_OK, 500}
PutTexts == {<<>>, <<"x">>}
CreateStatuses == {HTTP_CREATED, HTTP_OK, 500}

\* ------------------------------------------------------------- the state --
VARIABLES
    pc,                \* where the program is
    flow,              \* the operation in progress
    entry_type,        \* read_entry's entry_type
    original_content,  \* reconciliation: the content fetched
    new_content,       \* reconciliation: the content read back
    temp,              \* the session's temporary file: none, exists, gone
    outcome,           \* what the operation reported
    log,               \* the calls made by the operation in progress
    remote,            \* the taxonomy the server holds while spend_entry runs
    categories,        \* spend_entry's local snapshot of it
    category,          \* the resolver's current category
    subcategories,     \* the list select_subcategory was called with
    subcategory,       \* the subcategory the resolver returned
    entry0,            \* the snapshot as fetched, before the resolver ran
    failed,            \* create calls that failed in this resolution
    invalid            \* whether a numeric prompt got an invalid answer

vars == <<pc, flow, entry_type, original_content, new_content, temp, outcome,
          log, remote, categories, category, subcategories, subcategory,
          entry0, failed, invalid>>

reconcileVars == <<original_content, new_content, temp>>
resolverVars == <<remote, categories, category, subcategories, subcategory,
                  entry0, failed, invalid>>

\* An entry of log: the call, its text arguments, a tag, whether it
\* succeeded and the status it returned.
Ev(e, a, b, t, ok, n) == [ev |-> e, a |-> a, b |-> b, t |-> t, ok |-> ok, n |-> n]
E0(e) == Ev(e, <<>>, <<>>, "", TRUE, 0)
Failed(e) == Ev(e, <<>>, <<>>, "", FALSE, 0)

Outcome(kind, status, text) == [kind |-> kind, status |-> status, text |-> text]
NoOutcome == Outcome("none", 0, <<>>)
Printed(out) == Ev("print", out.text, <<>>, out.kind, TRUE, out.status)

ReconcileFlows == {"read_entry", "edit_transactions", "edit_categories"}
EntryTypes == {"task", "note", "bookmark"}


\* ------------------------------------------- reconciliation: the pieces --
FetchOk_NotFoundPasses(status) == status \in {HTTP_OK, 404}

\* The status test after the GET.
FetchOk(status) == status = HTTP_OK

\* original_content: read_entry and edit_transactions strip the body,
\* edit_categories parses it as JSON and pretty-prints it.
OriginalContent(f, text) ==
    IF f = "edit_categories"
    THEN LET v == json_loads(text) IN IF v = ValueError THEN ValueError ELSE json_dumps(v)
    ELSE strip(text)

Changed_Always(orig, new) == TRUE

\* "if original_content != new_content"
Changed(orig, new) == orig # new

Accepted_UnlessNo(line) == lower(strip(line)) # <<"n">>
Accepted_StartsWithY(line) ==
    LET u == lower(strip(line)) IN u # <<>> /\ u[1] = "y"

\* "update_choice = input(...).strip().lower()" and "if update_choice == 'y'"
Accepted(line) == lower(strip(line)) = <<"y">>

Unlink_Skipped(t) == t

\* os.unlink(temp_path) in the finally clause.  On a file the editor has
\* removed it raises, and the file is as absent as before.
Unlink(t) == IF t = "exists" THEN "gone" ELSE t

\* The PUT: its JSON body (read_entry adds the type) and its answer.
PutEvent(f, et, content, resp) ==
    Ev("put", content, resp.text, IF f = "read_entry" THEN et ELSE "",
       ~resp.exc, resp.status)

Error == Outcome("Error", 0, <<>>)

\* What NamedTemporaryFile and temp_file.write can do.
FileResults == {"ok", "create_fails", "write_fails"}

\* What the editor run and the read-back can do: the launch raises, the
\* file is gone when the editor exits, the read raises, or the read returns
\* a text.
EditorResults ==
    [kind : {"launch_fails", "file_removed", "read_fails"}, text : {<<>>}]
        \cup [kind : {"ok"}, text : Texts]

\* What the user can type at the (y/n) prompt.
ConfirmLines ==
    { <<>>, <<"y">>, <<"Y">>, <<" ", "y">>, <<"y", " ">>, <<"n">>, <<"N">>,
      <<"y", "e", "s">>, <<"y", "y">>, <<" ">> }

Step(p, out, lg, tmp, orig, new) ==
    [pc |-> p, outcome |-> out, log |-> lg, temp |-> tmp,
     original_content |-> orig, new_content |-> new]

\* From the GET to the editor launch: the GET, the status test, the
\* original content, the temporary file and its seed.
FetchResult(f, resp, fs) ==
    LET got  == <<Ev("get", resp.text, <<>>, "", ~resp.exc, resp.status)>>
        orig == OriginalContent(f, resp.text)
        fail(lg, tmp) == Step("done", Error, lg \o <<Printed(Error)>>, tmp, <<>>, <<>>)
    IN  IF resp.exc THEN fail(got, "none")
        ELSE IF ~FetchOk(resp.status)
        THEN LET out == Outcome("FetchFailure", resp.status, resp.text)
             IN  Step("done", out, got \o <<Printed(out)>>, "none", <<>>, <<>>)
        ELSE IF orig = ValueError THEN fail(got, "none")
        ELSE IF fs = "create_fails" THEN fail(got, "none")
        ELSE IF fs = "write_fails"
        THEN \* the with block is left by the exception before the try/finally
             \* that unlinks is entered
             fail(got \o <<E0("mktemp")>>, "exists")
        ELSE Step("editing", NoOutcome, got \o <<E0("mktemp"), E0("write")>>,
                  "exists", orig, <<>>)

\* From the editor launch to the prompt, or to the end when nothing changed
\* or something raised.
EditResult(orig, tmp, lg, ed) ==
    LET new == strip(ed.text)
        fail(l, t) == Step("done", Error, l \o <<E0("unlink"), Printed(Error)>>,
                           Unlink(t), orig, <<>>)
    IN  CASE ed.kind = "launch_fails" -> fail(lg \o <<Failed("editor")>>, tmp)
          [] ed.kind = "file_removed" ->
               fail(lg \o <<E0("editor"), Failed("read")>>, "gone")
          [] ed.kind = "read_fails" ->
               fail(lg \o <<E0("editor"), Failed("read")>>, tmp)
          [] OTHER ->
               IF Changed(orig, new)
               THEN Step("confirm", NoOutcome,
                         lg \o <<E0("editor"), E0("read"), E0("prompt")>>,
                         tmp, orig, new)
               ELSE LET out == Outcome("NoChange", 0, <<>>)
                    IN  Step("done", out,
                             lg \o <<E0("editor"), E0("read"), Printed(out), E0("unlink")>>,
                             Unlink(tmp), orig, new)

ConfirmResult_RetriesFailedPut(f, et, orig, new, tmp, lg, line, resp) ==
    LET answered == Append(lg, Ev("answer", line, <<>>, "", TRUE, 0))
        out == IF Accepted(line) THEN Outcome("Pushed", resp.status, resp.text)
               ELSE Outcome("Discarded", 0, <<>>)
        puts == IF ~Accepted(line) THEN <<>>
                ELSE IF resp.exc \/ resp.status # HTTP_OK
                THEN <<PutEvent(f, et, new, resp), PutEvent(f, et, new, resp)>>
                ELSE <<PutEvent(f, et, new, resp)>>
    IN  Step("done", out, answered \o puts \o <<Printed(out), E0("unlink")>>,
             Unlink(tmp), orig, new)

\* From the answer at the prompt to the end.
ConfirmResult(f, et, orig, new, tmp, lg, line, resp) ==
    LET answered == Append(lg, Ev("answer", line, <<>>, "", TRUE, 0))
    IN  IF Accepted(line)
        THEN IF resp.exc
             THEN Step("done", Error,
                       answered \o <<PutEvent(f, et, new, resp), E0("unlink"),
                                     Printed(Error)>>,
                       Unlink(tmp), orig, new)
             ELSE LET out == Outcome("Pushed", resp.status, resp.text)
                  IN  Step("done", out,
                           answered \o <<PutEvent(f, et, new, resp), Printed(out),
                                         E0("unlink")>>,
                           Unlink(tmp), orig, new)
        ELSE LET out == Outcome("Discarded", 0, <<>>)
             IN  Step("done", out, answered \o <<Printed(out), E0("unlink")>>,
                      Unlink(tmp), orig, new)

Take(r) ==
    /\ pc' = r.pc
    /\ outcome' = r.outcome
    /\ log' = r.log
    /\ temp' = r.temp
    /\ original_content' = r.original_content
    /\ new_content' = r.new_content

\* ------------------------------------------ reconciliation: the actions --
Fetch(f, et) ==
    /\ pc = "menu"
    /\ flow' = f
    /\ entry_type' = et
    /\ \E resp \in Responses(FetchStatuses, Texts), fs \in FileResults :
           Take(FetchResult(f, resp, fs))
    /\ UNCHANGED resolverVars

read_entry_fetch == \E et \in EntryTypes : Fetch("read_entry", et)
edit_transactions_fetch == Fetch("edit_transactions", "")
edit_categories_fetch == Fetch("edit_categories", "")

Edit ==
    /\ pc = "editing"
    /\ flow \in ReconcileFlows
    /\ \E ed \in EditorResults : Take(EditResult(original_content, temp, log, ed))
    /\ UNCHANGED <<flow, entry_type>>
    /\ UNCHANGED resolverVars

Confirm ==
    /\ pc = "confirm"
    /\ flow \in ReconcileFlows
    /\ \E line \in ConfirmLines, resp \in Responses(PutStatuses, PutTexts) :
           Take(ConfirmResult(flow, entry_type, original_content, new_content,
                              temp, log, line, resp))
    /\ UNCHANGED <<flow, entry_type>>
    /\ UNCHANGED resolverVars

\* ----------------------------------------------------------- write_entry --
\* write_entry has no except clause: an exception passes through the finally
\* clause, which unlinks the file, and ends the program with a traceback.
Crash == Outcome("Crash", 0, <<>>)
WriteStatuses == {HTTP_CREATED, 500}

\* NamedTemporaryFile: the file is made, or the call raises.
write_entry_start ==
    /\ pc = "menu"
    /\ flow' = "write_entry"
    /\ \E et \in EntryTypes, created \in BOOLEAN :
         /\ entry_type' = et
         /\ IF created
            THEN /\ pc' = "writing"
                 /\ log' = <<E0("mktemp")>>
                 /\ temp' = "exists"
                 /\ UNCHANGED outcome
            ELSE /\ pc' = "crashed"
                 /\ log' = <<Failed("mktemp")>>
                 /\ outcome' = Crash
                 /\ UNCHANGED temp
    /\ UNCHANGED <<original_content, new_content>>
    /\ UNCHANGED resolverVars

\* The editor has exited: the read-back and the test for empty content.
\* The file is on disk until the finally clause runs.
write_entry_edit ==
    /\ pc = "writing"
    /\ \E ed \in EditorResults :
         LET content == strip(ed.text)
             cancelled == Outcome("Cancelled", 0, <<>>)
             ends(p, out, lg, tmp, new) ==
                 /\ pc' = p
                 /\ outcome' = out
                 /\ log' = log \o lg
                 /\ temp' = tmp
                 /\ new_content' = new
         IN  IF ed.kind = "launch_fails"
             THEN ends("crashed", Crash, <<Failed("editor"), E0("unlink")>>,
                       Unlink(temp), <<>>)
             ELSE IF ed.kind = "file_removed"
             THEN ends("crashed", Crash,
                       <<E0("editor"), Failed("read"), E0("unlink")>>, "gone", <<>>)
             ELSE IF ed.kind = "read_fails"
             THEN ends("crashed", Crash,
                       <<E0("editor"), Failed("read"), E0("unlink")>>,
                       Unlink(temp), <<>>)
             ELSE IF content = <<>>
             THEN ends("done", cancelled,
                       <<E0("editor"), E0("read"), Printed(cancelled), E0("unlink")>>,
                       Unlink(temp), content)
             ELSE ends("posting", outcome, <<E0("editor"), E0("read")>>, temp, content)
    /\ UNCHANGED <<flow, entry_type, original_content>>
    /\ UNCHANGED resolverVars

\* The answer to requests.post, the two prints and the finally clause.
write_entry_post ==
    /\ pc = "posting"
    /\ \E resp \in Responses(WriteStatuses, PutTexts) :
         LET post == Ev("post_entry", new_content, resp.text, entry_type, ~resp.exc,
                        resp.status)
             posted == Outcome("Posted", resp.status, resp.text)
         IN  IF resp.exc
             THEN /\ pc' = "crashed"
                  /\ outcome' = Crash
                  /\ log' = log \o <<post, E0("unlink")>>
             ELSE /\ pc' = "done"
                  /\ outcome' = posted
                  /\ log' = log \o <<post, Printed(posted), E0("unlink")>>
    /\ temp' = Unlink(temp)
    /\ UNCHANGED <<flow, entry_type, original_content, new_content>>
    /\ UNCHANGED resolverVars

\* ------------------------------------------------------- the taxonomy --
\* A dict of lists, in insertion order: a sequence of [name, subs].
Names == {<<"a">>, <<"b">>}

Item(k, v) == [name |-> k, subs |-> v]
Keys_Reversed(d) == [i \in 1..Len(d) |-> d[Len(d) + 1 - i].name]
Keys(d) == [i \in 1..Len(d) |-> d[i].name]
HasKey(d, k) == \E i \in 1..Len(d) : d[i].name = k
Get(d, k) == d[CHOOSE i \in 1..Len(d) : d[i].name = k].subs
Contains(list, x) == \E i \in 1..Len(list) : list[i] = x

\* d[k] = v
DictSet(d, k, v) ==
    IF HasKey(d, k)
    THEN [i \in 1..Len(d) |-> IF d[i].name = k THEN Item(k, v) ELSE d[i]]
    ELSE Append(d, Item(k, v))

\* The server's side of the two create calls when it answers 201: the node
\* is in its taxonomy afterwards.
ServerAddCategory(r, c) == IF HasKey(r, c) THEN r ELSE Append(r, Item(c, <<>>))
ServerAddSubcategory(r, c, s) ==
    LET r1 == ServerAddCategory(r, c)
        subs == Get(r1, c)
    IN  DictSet(r1, c, IF Contains(subs, s) THEN subs ELSE Append(subs, s))
ServerAfter(r, resp, added) ==
    IF ~resp.exc /\ resp.status = HTTP_CREATED THEN added ELSE r

InitTaxonomies ==
    { <<>>,
      <<Item(<<"a">>, <<>>)>>,
      <<Item(<<"a">>, <<<<"a">>>>)>>,
      <<Item(<<"a">>, <<<<"a">>, <<"b">>>>), Item(<<"b">>, <<>>)>>,
      <<Item(<<"b">>, <<<<"b">>>>), Item(<<"a">>, <<<<"a">>>>)>> }

\* What the user can type at a name prompt and at a numeric prompt.
NameLines == { <<>>, <<" ">>, <<"a">>, <<"b">>, <<" ", "a">>, <<"b", " ">> }
ChoiceLines ==
    { <<>>, <<"0">>, <<"1">>, <<"2">>, <<"3">>, <<"4">>, <<"-", "1">>, <<"x">>,
      <<" ", "1">>, <<"2", " ">>, <<"1", "x">>, <<"0", "2">> }

DigitValue(c) ==
    CASE c = "0" -> 0 [] c = "1" -> 1 [] c = "2" -> 2 [] c = "3" -> 3
      [] c = "4" -> 4 [] OTHER -> -1

RECURSIVE DigitsValue(_)
DigitsValue(s) ==
    IF s = <<>> THEN 0
    ELSE 10 * DigitsValue(SubSeq(s, 1, Len(s) - 1)) + DigitValue(s[Len(s)])

AllDigits(s) == s # <<>> /\ \A i \in 1..Len(s) : DigitValue(s[i]) >= 0

\* int(choice): ok is FALSE where int raises ValueError.
int(s) ==
    LET t == strip(s)
        signed == t # <<>> /\ t[1] \in {"-", "+"}
        digits == IF signed THEN Tail(t) ELSE t
    IN  IF AllDigits(digits)
        THEN [ok |-> TRUE,
              n |-> IF signed /\ t[1] = "-" THEN 0 - DigitsValue(digits)
                    ELSE DigitsValue(digits)]
        ELSE [ok |-> FALSE, n |-> 0]

\* What GET /categories can answer: a transport exception, or a status with
\* a body that is the taxonomy document, a JSON object without the
\* 'categories' key, or not JSON at all.
TaxonomyResponses ==
    {[exc |-> TRUE, status |-> 0, body |-> "none"]}
        \cup [exc : {FALSE}, status : {HTTP_OK, 500},
              body : {"taxonomy", "no_key", "not_json"}]

get_categories_NoStatusCheck(resp, r) ==
    IF ~resp.exc /\ resp.body = "taxonomy" THEN r ELSE <<>>

get_categories(resp, r) ==
    IF ~resp.exc /\ resp.status = HTTP_OK /\ resp.body = "taxonomy" THEN r ELSE <<>>

add_category_AnyResponse(resp) == ~resp.exc
add_category_Expects200(resp) == ~resp.exc /\ resp.status = HTTP_OK
add_subcategory_AnySuccess(resp) == ~resp.exc /\ resp.status \in {HTTP_OK, HTTP_CREATED}

\* The value add_category and add_subcategory return.
add_category(resp) == ~resp.exc /\ resp.status = HTTP_CREATED
add_subcategory(resp) == ~resp.exc /\ resp.status = HTTP_CREATED

CategoryEntry_AlwaysSelect(cats) == "SelectCategory"

Pick_NoOffset(list, n) == list[(n % Len(list)) + 1]

InRange_ZeroPasses(n, len) == 0 <= n /\ n <= len

\* "1 <= choice_num <= len(category_list)"
InRange(n, len) == 1 <= n /\ n <= len

\* list[choice_num - 1], with Python's indexing: a negative index counts
\* from the end, an index outside the list raises.
IndexError == <<"IndexError">>
Pick(list, n) ==
    LET i == IF n - 1 >= 0 THEN n ELSE Len(list) + n
    IN  IF i \in 1..Len(list) THEN list[i] ELSE IndexError

\* select_category's first test, and select_subcategory's.
CategoryEntry(cats) == IF cats = <<>> THEN "CreateCategoryEmpty" ELSE "SelectCategory"
SubcategoryEntry(subs) ==
    IF subs = <<>> THEN "CreateSubcategoryEmpty" ELSE "SelectSubcategory"

\* The local snapshot after an add_category call: the loop entered on an
\* empty snapshot leaves it alone, the loop entered through "Add New
\* Category" stores the new key once the call has succeeded.
CacheAfterFirstCategory(cats, name, ok) == cats
CacheAfterNewCategory_BeforeAnswer(cats, name, ok) == DictSet(cats, name, <<>>)
CacheAfterNewCategory(cats, name, ok) == IF ok THEN DictSet(cats, name, <<>>) ELSE cats

\* ---------------------------------------------------------- spend_entry --
\* The date, name and amount prompts, then get_categories and the entry
\* into select_category.  The three prompts loop until they have a valid
\* value and touch nothing else.  The server's taxonomy is whatever earlier
\* sessions and other edits have left there.
spend_entry_start ==
    /\ pc = "menu"
    /\ flow' = "spend_entry"
    /\ \E resp \in TaxonomyResponses, r \in InitTaxonomies :
         LET cats == get_categories(resp, r)
         IN  /\ remote' = r
             /\ categories' = cats
             /\ entry0' = cats
             /\ pc' = CategoryEntry(cats)
             /\ log' = <<Ev("get_categories", <<>>, <<>>, resp.body,
                            ~resp.exc /\ resp.status = HTTP_OK, resp.status)>>
    /\ UNCHANGED <<entry_type, outcome, category, subcategories,
                   subcategory, failed, invalid>>
    /\ UNCHANGED reconcileVars

\* The numeric prompt of select_category.
SelectCategory ==
    /\ pc = "SelectCategory"
    /\ \E line \in ChoiceLines :
         LET choice == int(line)
             category_list == Keys(categories)
         IN  IF choice.ok /\ InRange(choice.n, Len(category_list))
             THEN LET selected == Pick(category_list, choice.n)
                  IN  /\ category' = selected
                      /\ subcategories' = Get(categories, selected)
                      /\ pc' = SubcategoryEntry(Get(categories, selected))
                      /\ log' = Append(log, Ev("choose_category", selected, <<>>, "", TRUE, choice.n))
                      /\ UNCHANGED invalid
             ELSE IF choice.ok /\ choice.n = Len(category_list) + 1
             THEN /\ pc' = "CreateCategoryNew"
                  /\ log' = Append(log, Ev("choose_category", <<>>, <<>>, "new", TRUE, choice.n))
                  /\ UNCHANGED <<category, subcategories, invalid>>
             ELSE /\ invalid' = TRUE
                  /\ UNCHANGED <<pc, log, category, subcategories>>
    /\ UNCHANGED <<flow, entry_type, outcome, remote, categories, subcategory,
                   entry0, failed>>
    /\ UNCHANGED reconcileVars

\* A name prompt of select_category followed by add_category, in the loop
\* the program is at.
CreateCategory(at) ==
    /\ pc = at
    /\ \E line \in NameLines, resp \in Responses(CreateStatuses, {<<>>}) :
         LET name == strip(line)
             ok == add_category(resp)
         IN  IF name = <<>>
             THEN UNCHANGED <<pc, log, remote, categories, category,
                              subcategories, failed>>
             ELSE /\ ok \/ failed < MaxFailedCreates
                  /\ remote' = ServerAfter(remote, resp, ServerAddCategory(remote, name))
                  /\ log' = Append(log, Ev("add_category", name, <<>>, "", ok, resp.status))
                  /\ categories' = IF at = "CreateCategoryNew"
                                   THEN CacheAfterNewCategory(categories, name, ok)
                                   ELSE CacheAfterFirstCategory(categories, name, ok)
                  /\ IF ok
                     THEN /\ category' = name
                          /\ subcategories' = <<>>
                          /\ pc' = SubcategoryEntry(<<>>)
                          /\ UNCHANGED failed
                     ELSE /\ failed' = failed + 1
                          /\ UNCHANGED <<pc, category, subcategories>>
    /\ UNCHANGED <<flow, entry_type, outcome, subcategory, entry0, invalid>>
    /\ UNCHANGED reconcileVars

CreateCategoryEmpty == CreateCategory("CreateCategoryEmpty")
CreateCategoryNew == CreateCategory("CreateCategoryNew")

\* The numeric prompt of select_subcategory.
SelectSubcategory ==
    /\ pc = "SelectSubcategory"
    /\ \E line \in ChoiceLines :
         LET choice == int(line)
         IN  IF choice.ok /\ InRange(choice.n, Len(subcategories))
             THEN /\ subcategory' = Pick(subcategories, choice.n)
                  /\ pc' = "Resolved"
                  /\ log' = Append(log, Ev("choose_subcategory", category,
                                           Pick(subcategories, choice.n), "", TRUE,
                                           choice.n))
                  /\ UNCHANGED invalid
             ELSE IF choice.ok /\ choice.n = Len(subcategories) + 1
             THEN /\ pc' = "CreateSubcategoryNew"
                  /\ log' = Append(log, Ev("choose_subcategory", category, <<>>, "new", TRUE,
                                           choice.n))
                  /\ UNCHANGED <<subcategory, invalid>>
             ELSE /\ invalid' = TRUE
                  /\ UNCHANGED <<pc, log, subcategory>>
    /\ UNCHANGED <<flow, entry_type, outcome, remote, categories, category,
                   subcategories, entry0, failed>>
    /\ UNCHANGED reconcileVars

\* A name prompt of select_subcategory followed by add_subcategory.  Neither
\* loop touches the snapshot.
CreateSubcategory(at) ==
    /\ pc = at
    /\ \E line \in NameLines, resp \in Responses(CreateStatuses, {<<>>}) :
         LET name == strip(line)
             ok == add_subcategory(resp)
         IN  IF name = <<>>
             THEN UNCHANGED <<pc, log, remote, subcategory, failed>>
             ELSE /\ ok \/ failed < MaxFailedCreates
                  /\ remote' = ServerAfter(remote, resp,
                                           ServerAddSubcategory(remote, category, name))
                  /\ log' = Append(log, Ev("add_subcategory", category, name, "", ok,
                                           resp.status))
                  /\ IF ok
                     THEN /\ subcategory' = name
                          /\ pc' = "Resolved"
                          /\ UNCHANGED failed
                     ELSE /\ failed' = failed + 1
                          /\ UNCHANGED <<pc, subcategory>>
    /\ UNCHANGED <<flow, entry_type, outcome, categories, category,
                   subcategories, entry0, invalid>>
    /\ UNCHANGED reconcileVars

CreateSubcategoryEmpty == CreateSubcategory("CreateSubcategoryEmpty")
CreateSubcategoryNew == CreateSubcategory("CreateSubcategoryNew")

\* select_category has returned: the payment and notes prompts, then the
\* POST of the entry and the report.
\* What spend_entry reports for the answer to its POST: on 201 it reads the
\* body with response.json() and calls result.get, which raises unless the
\* body is a JSON object; every exception ends in the generic error report.
SpendTexts == {<<>>, <<"0">>, <<"{", "}">>}
IsObject(v) == v = <<"{", "}">>
\* The reports spend_entry prints for the answer to its POST, in order.  On
\* 201 the success line (281) is printed once response.json() has returned
\* and before result.get (282), so a JSON body that is not an object is
\* reported as added and then as an error.
SpendReport(resp) ==
    IF resp.exc THEN <<Error>>
    ELSE IF resp.status = HTTP_CREATED
    THEN IF json_loads(resp.text) = ValueError THEN <<Error>>
         ELSE IF IsObject(json_loads(resp.text))
         THEN <<Outcome("Added", resp.status, resp.text)>>
         ELSE <<Outcome("Added", resp.status, resp.text), Error>>
    ELSE <<Outcome("PostFailure", resp.status, resp.text)>>

spend_entry_post ==
    /\ pc = "Resolved"
    /\ \E resp \in Responses({HTTP_CREATED, 500}, SpendTexts) :
         LET reports == SpendReport(resp)
         IN  /\ outcome' = reports[Len(reports)]
             /\ log' = log \o <<Ev("post", category, subcategory, "", ~resp.exc,
                                   resp.status)>>
                          \o [i \in 1..Len(reports) |-> Printed(reports[i])]
    /\ pc' = "done"
    /\ UNCHANGED <<flow, entry_type>>
    /\ UNCHANGED resolverVars
    /\ UNCHANGED reconcileVars

\* --------------------------------------------------------------- the menu --
\* The operation has returned; the submenu loop prompts again.
Return ==
    /\ pc = "done"
    /\ pc' = "menu"
    /\ flow' = "none"
    /\ entry_type' = ""
    /\ original_content' = <<>>
    /\ new_content' = <<>>
    /\ temp' = "none"
    /\ outcome' = NoOutcome
    /\ log' = <<>>
    /\ categories' = <<>>
    /\ entry0' = <<>>
    /\ category' = <<>>
    /\ subcategories' = <<>>
    /\ subcategory' = <<>>
    /\ failed' = 0
    /\ invalid' = FALSE
    /\ remote' = <<>>

Init ==
    /\ pc = "menu"
    /\ flow = "none"
    /\ entry_type = ""
    /\ original_content = <<>>
    /\ new_content = <<>>
    /\ temp = "none"
    /\ outcome = NoOutcome
    /\ log = <<>>
    /\ remote = <<>>
    /\ categories = <<>>
    /\ entry0 = <<>>
    /\ category = <<>>
    /\ subcategories = <<>>
    /\ subcategory = <<>>
    /\ failed = 0
    /\ invalid = FALSE

Next ==
    \/ read_entry_fetch
    \/ edit_transactions_fetch
    \/ edit_categories_fetch
    \/ Edit
    \/ Confirm
    \/ write_entry_start
    \/ write_entry_edit
    \/ write_entry_post
    \/ spend_entry_start
    \/ SelectCategory
    \/ CreateCategoryEmpty
    \/ CreateCategoryNew
    \/ SelectSubcategory
    \/ CreateSubcategoryEmpty
    \/ CreateSubcategoryNew
    \/ spend_entry_post
    \/ Return

Spec == Init /\ [][Next]_vars

TypeOK ==
    /\ pc \in {"menu", "editing", "confirm", "done", "crashed", "writing", "posting",
               "SelectCategory",
               "CreateCategoryEmpty", "CreateCategoryNew", "SelectSubcategory",
               "CreateSubcategoryEmpty", "CreateSubcategoryNew", "Resolved"}
    /\ flow \in ReconcileFlows \cup {"write_entry", "spend_entry", "none"}
    /\ temp \in {"none", "exists", "gone"}
    /\ failed \in 0..MaxFailedCreates
    /\ invalid \in BOOLEAN

\* ------------------------------------------------------- reading log --
Events(e) == {i \in 1..Len(log) : log[i].ev = e}
Reconciling == flow \in ReconcileFlows
Resolving == flow = "spend_entry"

\* The read-back succeeded, so new_content is what the editor left.
ReadBack == \E i \in Events("read") : log[i].ok
\* The editor launch or the read-back raised.
EditFailed == \E i \in Events("editor") \cup Events("read") : ~log[i].ok
\* The user's answer at the (y/n) prompt, as the prompt words it.
SaysYes(line) == lower(strip(line)) = <<"y">>
InSnapshot(d, c, s) == HasKey(d, c) /\ Contains(Get(d, c), s)

\* ----------------------------------------------------------------- C1 --
\* C1: in each of the three flows, when the content read back equals the
\* original content, the operation ends with the No-Change outcome and no
\* PUT has been issued.
C1_EqualContentIsNoChange ==
    (Reconciling /\ ReadBack /\ new_content = original_content)
        => /\ pc = "done"
           /\ outcome.kind = "NoChange"
           /\ Events("put") = {}

C1_Witness ==
    /\ flow = "edit_categories"
    /\ pc = "done"
    /\ ReadBack
    /\ new_content = original_content
    /\ original_content # <<>>

\* ----------------------------------------------------------------- C2 --
\* C2: whatever the outcome, the temporary file of the session does not
\* exist once the operation has returned.
C2_TempFileReleased == (Reconciling /\ pc = "done") => temp # "exists"

\* ----------------------------------------------------------------- C3 --
\* C3 as stated: with changed content a PUT comes only after the prompt and
\* an accepting answer; a declining answer gives Discarded and no PUT; an
\* accepting answer gives exactly one PUT of new_content and the outcome
\* Pushed with that PUT's status and body.
C3_AsStated ==
    (Reconciling /\ ReadBack /\ new_content # original_content)
        => /\ \A j \in Events("put") :
                /\ \E i \in Events("prompt") : i < j
                /\ \E k \in Events("answer") : k < j /\ SaysYes(log[k].a)
           /\ pc = "done" =>
                /\ Cardinality(Events("answer")) = 1
                /\ \A k \in Events("answer") :
                     IF SaysYes(log[k].a)
                     THEN /\ Cardinality(Events("put")) = 1
                          /\ \A j \in Events("put") :
                               /\ log[j].a = new_content
                               /\ outcome = Outcome("Pushed", log[j].n, log[j].b)
                     ELSE /\ Events("put") = {}
                          /\ outcome.kind = "Discarded"

\* C3 amended: as above, but the outcome is Pushed with the PUT's status and
\* body when the PUT returns a response, and the error report when it raises.
C3_PushAfterConfirmation ==
    (Reconciling /\ ReadBack /\ new_content # original_content)
        => /\ \A j \in Events("put") :
                /\ \E i \in Events("prompt") : i < j
                /\ \E k \in Events("answer") : k < j /\ SaysYes(log[k].a)
           /\ pc = "done" =>
                /\ Cardinality(Events("answer")) = 1
                /\ \A k \in Events("answer") :
                     IF SaysYes(log[k].a)
                     THEN /\ Cardinality(Events("put")) = 1
                          /\ \A j \in Events("put") :
                               /\ log[j].a = new_content
                               /\ log[j].ok =>
                                    outcome = Outcome("Pushed", log[j].n, log[j].b)
                               /\ ~log[j].ok => outcome = Error
                     ELSE /\ Events("put") = {}
                          /\ outcome.kind = "Discarded"

C3_Witness ==
    /\ Reconciling
    /\ pc = "done"
    /\ outcome.kind = "Pushed"
    /\ outcome.status = 500
    /\ new_content # <<>>

\* ----------------------------------------------------------------- C4 --
\* C4: when the GET returns a status other than 200 the outcome is Fetch
\* Failure with that status and body, and the run has created no temporary
\* file, launched no editor, shown no prompt and issued no PUT.
C4_FetchFailureStopsTheRun ==
    (Reconciling /\ log # <<>> /\ log[1].ev = "get" /\ log[1].ok /\ log[1].n # HTTP_OK)
        => /\ pc = "done"
           /\ outcome = Outcome("FetchFailure", log[1].n, log[1].a)
           /\ temp = "none"
           /\ \A i \in 1..Len(log) : log[i].ev \in {"get", "print"}

C4_Witness ==
    /\ Reconciling
    /\ pc = "done"
    /\ outcome.kind = "FetchFailure"
    /\ outcome.status = 404
    /\ outcome.text # <<>>

\* ----------------------------------------------------------------- C5 --
\* C5: when the resolver returns (category, subcategory), the local snapshot
\* has that category as a key and that subcategory in its list.
C5_ResolvedPairInSnapshot ==
    (Resolving /\ pc = "Resolved") => InSnapshot(categories, category, subcategory)

\* ----------------------------------------------------------------- C6 --
\* C6: a failed add_category call leaves the local snapshot as it was and
\* the resolver at the same name prompt of select_category; and the
\* snapshot changes only in a step whose create call reported success.
C6_SnapshotFollowsSuccess ==
    [][ (Resolving /\ flow' = flow) =>
          LET called == Len(log') = Len(log) + 1
              last == log'[Len(log')]
          IN  /\ (called /\ last.ev = "add_category" /\ ~last.ok)
                   => /\ categories' = categories
                      /\ pc' = pc
                      /\ pc \in {"CreateCategoryEmpty", "CreateCategoryNew"}
              /\ categories' # categories
                   => /\ called
                      /\ last.ev = "add_category"
                      /\ last.ok
                      /\ \A i \in 1..Len(categories) :
                           categories[i].name # last.a => categories'[i] = categories[i]
      ]_vars

C6_Witness ==
    /\ pc = "CreateCategoryNew"
    /\ log[Len(log)].ev = "add_category"
    /\ ~log[Len(log)].ok
    /\ categories = entry0
    /\ Len(categories) = 2

\* ----------------------------------------------------------------- C7 --
\* C7: when spend_entry posts an entry, the server's taxonomy has the
\* entry's category and, under it, the entry's subcategory.
C7_PostedPairOnServer ==
    \A i \in Events("post") : InSnapshot(remote, log[i].a, log[i].b)

C7_Witness ==
    /\ Events("post") # {}
    /\ ~log[1].ok
    /\ remote # <<>>
    /\ \E i \in Events("add_category") : log[i].ok /\ HasKey(entry0, log[i].a) = FALSE

\* ----------------------------------------------------------------- C8 --
\* C8: on an empty snapshot the resolver never shows a numeric prompt, and
\* when it has returned, a successful add_category for the returned category
\* is followed by a successful add_subcategory for the returned pair.
C8_EmptySnapshotCreatesBoth ==
    (Resolving /\ entry0 = <<>>)
        => /\ ~invalid
           /\ Events("choose_category") = {}
           /\ Events("choose_subcategory") = {}
           /\ pc \in {"CreateCategoryEmpty", "CreateSubcategoryEmpty", "Resolved", "done"}
           /\ pc = "CreateSubcategoryEmpty" =>
                \E i \in Events("add_category") : log[i].ok /\ log[i].a = category
           /\ pc \in {"Resolved", "done"} =>
                \E i \in Events("add_category"), j \in Events("add_subcategory") :
                    /\ i < j
                    /\ log[i].ok /\ log[i].a = category
                    /\ log[j].ok /\ log[j].a = category /\ log[j].b = subcategory

C8_Witness ==
    /\ Resolving
    /\ entry0 = <<>>
    /\ pc = "Resolved"
    /\ failed >= 1

\* ----------------------------------------------------------------- C9 --
\* C9: from a non-empty snapshot and with valid numeric selections only, the
\* resolver returns a pair whose category and subcategory are both in the
\* snapshot.
C9_ValidSelectionsResolveInSnapshot ==
    (Resolving /\ pc = "Resolved" /\ entry0 # <<>> /\ ~invalid)
        => InSnapshot(categories, category, subcategory)

\* ---------------------------------------------------------------- C10 --
\* C10: when the editor launch or the read-back raises, the operation ends
\* with the error report, no PUT is issued, and the temporary file is
\* unlinked before the report is printed.
C10_EditFailureReported ==
    (Reconciling /\ EditFailed)
        => /\ pc = "done"
           /\ outcome = Error
           /\ Events("put") = {}
           /\ temp # "exists"
           /\ Events("print") # {}
           /\ \A p \in Events("print") : \E u \in Events("unlink") : u < p

C10_Witness ==
    /\ Reconciling
    /\ pc = "done"
    /\ \E i \in Events("read") : ~log[i].ok
    /\ temp = "gone"

\* ---------------------------------------------------------------- C11 --
\* C11: right after a successful add_category the local snapshot has the new
\* category with an empty subcategory list, and the resolver is at the
\* mandatory subcategory name prompt.
C11_NewCategoryInSnapshot ==
    (Resolving /\ log # <<>> /\ log[Len(log)].ev = "add_category" /\ log[Len(log)].ok)
        => /\ pc = "CreateSubcategoryEmpty"
           /\ HasKey(categories, log[Len(log)].a)
           /\ Get(categories, log[Len(log)].a) = <<>>

\* ---------------------------------------------------------------- C12 --
\* C12: when the user has selected an existing category and then an existing
\* subcategory, the resolver returns exactly the pair at those positions of
\* the snapshot it was given, has issued no create call and has left the
\* snapshot as it was.
C12_SelectingExistingNodes ==
    \A i \in Events("choose_category"), j \in Events("choose_subcategory") :
        (Resolving /\ log[i].t = "" /\ log[j].t = "")
            => /\ pc \in {"Resolved", "done"}
               /\ log[i].n \in 1..Len(entry0)
               /\ category = entry0[log[i].n].name
               /\ log[j].n \in 1..Len(entry0[log[i].n].subs)
               /\ subcategory = entry0[log[i].n].subs[log[j].n]
               /\ Events("add_category") = {}
               /\ Events("add_subcategory") = {}
               /\ categories = entry0

C12_Witness ==
    /\ Resolving
    /\ pc = "Resolved"
    /\ invalid
    /\ Len(entry0) = 2
    /\ category = entry0[2].name
    /\ \E j \in Events("choose_subcategory") : log[j].t = "" /\ log[j].b = subcategory

\* ---------------------------------------------------------------- C13 --
\* C13: starting from an empty snapshot, while the server has answered 201
\* to every create call, there is at most one add_category call and at most
\* one add_subcategory call, the second after the first and for the same
\* category; and when the resolver has returned, both have been made, for
\* the returned category and the returned pair.
C13_TwoCreatesFromEmpty ==
    LET cats == Events("add_category")
        subs == Events("add_subcategory")
    IN  (Resolving /\ entry0 = <<>>
           /\ \A i \in cats \cup subs : log[i].n = HTTP_CREATED)
            => /\ Cardinality(cats) <= 1
               /\ Cardinality(subs) <= 1
               /\ \A j \in subs : \E i \in cats : i < j /\ log[i].a = log[j].a
               /\ pc \in {"Resolved", "done"} =>
                    /\ \E i \in cats : log[i].a = category
                    /\ \E j \in subs : log[j].a = category /\ log[j].b = subcategory

C13_Witness ==
    /\ Resolving
    /\ entry0 = <<>>
    /\ pc = "Resolved"
    /\ Cardinality(Events("add_category")) = 1
    /\ Cardinality(Events("add_subcategory")) = 1
    /\ category # subcategory

\* ---------------------------------------------------------------- C14 --
EventsIn(l, names) == {i \in 1..Len(l) : l[i].ev \in names}
CreateCalls(l) == Cardinality(EventsIn(l, {"add_category", "add_subcategory"}))

\* C14 as stated: a reconciliation issues at most one GET and at most one
\* PUT, and every PUT that fails, by raising or by a status other than 200,
\* ends the operation with its status and body reported; a step of the
\* resolver issues at most one create call, and only at a name prompt.
C14_AsStated ==
    [][ /\ Reconciling' =>
              /\ Cardinality(EventsIn(log', {"get"})) <= 1
              /\ Cardinality(EventsIn(log', {"put"})) <= 1
              /\ \A j \in EventsIn(log', {"put"}) :
                    (~log'[j].ok \/ log'[j].n # HTTP_OK)
                        => /\ pc' = "done"
                           /\ outcome' = Outcome("Pushed", log'[j].n, log'[j].b)
                           /\ \E p \in EventsIn(log', {"print"}) :
                                 p > j /\ log'[p] = Printed(outcome')
        /\ (Resolving /\ flow' = flow) =>
              /\ CreateCalls(log') <= CreateCalls(log) + 1
              /\ CreateCalls(log') = CreateCalls(log) + 1 =>
                    pc \in {"CreateCategoryEmpty", "CreateCategoryNew",
                            "CreateSubcategoryEmpty", "CreateSubcategoryNew"}
      ]_vars

\* C14 amended: a reconciliation issues at most one GET and at most one PUT;
\* a PUT that fails ends the operation after exactly one report that
\* follows it: its status and body when the call returned a response, the
\* generic error report when the call raised; a step of the resolver, which
\* reads one line from the user, issues at most one create call, and only at
\* a name prompt.
C14_NoAutomaticRetry ==
    [][ /\ Reconciling' =>
              /\ Cardinality(EventsIn(log', {"get"})) <= 1
              /\ Cardinality(EventsIn(log', {"put"})) <= 1
              /\ \A j \in EventsIn(log', {"put"}) :
                    (~log'[j].ok \/ log'[j].n # HTTP_OK)
                        => /\ pc' = "done"
                           /\ outcome' = IF log'[j].ok
                                          THEN Outcome("Pushed", log'[j].n, log'[j].b)
                                          ELSE Error
                           /\ \E p \in EventsIn(log', {"print"}) :
                                 /\ p > j
                                 /\ log'[p] = Printed(outcome')
                                 /\ EventsIn(log', {"print"}) = {p}
        /\ (Resolving /\ flow' = flow) =>
              /\ CreateCalls(log') <= CreateCalls(log) + 1
              /\ CreateCalls(log') = CreateCalls(log) + 1 =>
                    pc \in {"CreateCategoryEmpty", "CreateCategoryNew",
                            "CreateSubcategoryEmpty", "CreateSubcategoryNew"}
      ]_vars

C14_Witness ==
    /\ Reconciling
    /\ pc = "done"
    /\ \E j \in Events("put") : ~log[j].ok
    /\ outcome = Error
    /\ Cardinality(Events("get")) = 1
    /\ Cardinality(Events("put")) = 1
    /\ Cardinality(Events("print")) = 1

\* ---------------------------------------------------------------- C15 --
\* The answers the environment has given so far in this run, read off log,
\* and the state another flow would be in after the same answers.
SeenResponse == [exc |-> ~log[1].ok, status |-> log[1].n, text |-> log[1].a]
FetchedOk == log[1].ok /\ log[1].n = HTTP_OK
SeenFileResults ==
    IF Events("write") # {} THEN {"ok"}
    ELSE IF Events("mktemp") # {} THEN {"write_fails"}
    ELSE IF FetchedOk /\ OriginalContent(flow, log[1].a) # ValueError THEN {"create_fails"}
    ELSE FileResults
SeenEditorResults ==
    IF \E i \in Events("editor") : ~log[i].ok
    THEN {[kind |-> "launch_fails", text |-> <<>>]}
    ELSE IF \E i \in Events("read") : ~log[i].ok
    THEN {[kind |-> "read_fails", text |-> <<>>], [kind |-> "file_removed", text |-> <<>>]}
    ELSE IF ReadBack THEN {[kind |-> "ok", text |-> new_content]}
    ELSE {}
SeenAnswers == {log[k].a : k \in Events("answer")}
SeenPutResponse ==
    IF Events("put") = {} THEN Raised
    ELSE LET j == CHOOSE j \in Events("put") : TRUE
         IN  [exc |-> ~log[j].ok, status |-> log[j].n, text |-> log[j].b]

\* The three flows, each transcribed on its own from its function.
\* The PUT of each flow: its payload and its answer.
read_entry_put(et, content, put) ==
    Ev("put", content, put.text, et, ~put.exc, put.status)
edit_transactions_put(content, put) ==
    Ev("put", content, put.text, "", ~put.exc, put.status)
edit_categories_put_Posts(content, put) ==
    Ev("post", content, put.text, "", ~put.exc, put.status)
edit_categories_put(content, put) ==
    Ev("put", content, put.text, "", ~put.exc, put.status)

\* read_entry, lines 341-393, from the GET to the return, for one answer of the
\* server to the GET, one behaviour of the temporary file, one result of
\* the editor, one line typed at the prompt and one answer to the PUT.
read_entry(et, resp, fs, ed, line, put) ==
    LET get == Ev("get", resp.text, <<>>, "", ~resp.exc, resp.status)
        original == strip(resp.text)
        new == strip(ed.text)
        seeded == <<get, E0("mktemp"), E0("write")>>
        Run(out, lg, tmp) == [outcome |-> out, log |-> lg, temp |-> tmp]
    IN  IF resp.exc THEN Run(Error, <<get, Printed(Error)>>, "none")
        ELSE IF resp.status # HTTP_OK
        THEN Run(Outcome("FetchFailure", resp.status, resp.text),
                 <<get, Printed(Outcome("FetchFailure", resp.status, resp.text))>>,
                 "none")
        ELSE IF fs = "create_fails" THEN Run(Error, <<get, Printed(Error)>>, "none")
        ELSE IF fs = "write_fails"
        THEN Run(Error, <<get, E0("mktemp"), Printed(Error)>>, "exists")
        ELSE IF ed.kind = "launch_fails"
        THEN Run(Error, seeded \o <<Failed("editor"), E0("unlink"), Printed(Error)>>,
                 "gone")
        ELSE IF ed.kind \in {"file_removed", "read_fails"}
        THEN Run(Error,
                 seeded \o <<E0("editor"), Failed("read"), E0("unlink"), Printed(Error)>>,
                 "gone")
        ELSE IF original = new
        THEN Run(Outcome("NoChange", 0, <<>>),
                 seeded \o <<E0("editor"), E0("read"),
                             Printed(Outcome("NoChange", 0, <<>>)), E0("unlink")>>,
                 "gone")
        ELSE IF lower(strip(line)) # <<"y">>
        THEN Run(Outcome("Discarded", 0, <<>>),
                 seeded \o <<E0("editor"), E0("read"), E0("prompt"),
                             Ev("answer", line, <<>>, "", TRUE, 0),
                             Printed(Outcome("Discarded", 0, <<>>)), E0("unlink")>>,
                 "gone")
        ELSE IF put.exc
        THEN Run(Error,
                 seeded \o <<E0("editor"), E0("read"), E0("prompt"),
                             Ev("answer", line, <<>>, "", TRUE, 0),
                             read_entry_put(et, new, put), E0("unlink"), Printed(Error)>>,
                 "gone")
        ELSE Run(Outcome("Pushed", put.status, put.text),
                 seeded \o <<E0("editor"), E0("read"), E0("prompt"),
                             Ev("answer", line, <<>>, "", TRUE, 0),
                             read_entry_put(et, new, put),
                             Printed(Outcome("Pushed", put.status, put.text)),
                             E0("unlink")>>,
                 "gone")

\* edit_transactions, lines 395-447, from the GET to the return, for one answer of the
\* server to the GET, one behaviour of the temporary file, one result of
\* the editor, one line typed at the prompt and one answer to the PUT.
edit_transactions(resp, fs, ed, line, put) ==
    LET get == Ev("get", resp.text, <<>>, "", ~resp.exc, resp.status)
        original == strip(resp.text)
        new == strip(ed.text)
        seeded == <<get, E0("mktemp"), E0("write")>>
        Run(out, lg, tmp) == [outcome |-> out, log |-> lg, temp |-> tmp]
    IN  IF resp.exc THEN Run(Error, <<get, Printed(Error)>>, "none")
        ELSE IF resp.status # HTTP_OK
        THEN Run(Outcome("FetchFailure", resp.status, resp.text),
                 <<get, Printed(Outcome("FetchFailure", resp.status, resp.text))>>,
                 "none")
        ELSE IF fs = "create_fails" THEN Run(Error, <<get, Printed(Error)>>, "none")
        ELSE IF fs = "write_fails"
        THEN Run(Error, <<get, E0("mktemp"), Printed(Error)>>, "exists")
        ELSE IF ed.kind = "launch_fails"
        THEN Run(Error, seeded \o <<Failed("editor"), E0("unlink"), Printed(Error)>>,
                 "gone")
        ELSE IF ed.kind \in {"file_removed", "read_fails"}
        THEN Run(Error,
                 seeded \o <<E0("editor"), Failed("read"), E0("unlink"), Printed(Error)>>,
                 "gone")
        ELSE IF original = new
        THEN Run(Outcome("NoChange", 0, <<>>),
                 seeded \o <<E0("editor"), E0("read"),
                             Printed(Outcome("NoChange", 0, <<>>)), E0("unlink")>>,
                 "gone")
        ELSE IF lower(strip(line)) # <<"y">>
        THEN Run(Outcome("Discarded", 0, <<>>),
                 seeded \o <<E0("editor"), E0("read"), E0("prompt"),
                             Ev("answer", line, <<>>, "", TRUE, 0),
                             Printed(Outcome("Discarded", 0, <<>>)), E0("unlink")>>,
                 "gone")
        ELSE IF put.exc
        THEN Run(Error,
                 seeded \o <<E0("editor"), E0("read"), E0("prompt"),
                             Ev("answer", line, <<>>, "", TRUE, 0),
                             edit_transactions_put(new, put), E0("unlink"), Printed(Error)>>,
                 "gone")
        ELSE Run(Outcome("Pushed", put.status, put.text),
                 seeded \o <<E0("editor"), E0("read"), E0("prompt"),
                             Ev("answer", line, <<>>, "", TRUE, 0),
                             edit_transactions_put(new, put),
                             Printed(Outcome("Pushed", put.status, put.text)),
                             E0("unlink")>>,
                 "gone")

\* edit_categories, lines 449-501, from the GET to the return, for one answer of the
\* server to the GET, one behaviour of the temporary file, one result of
\* the editor, one line typed at the prompt and one answer to the PUT.
edit_categories(resp, fs, ed, line, put) ==
    LET get == Ev("get", resp.text, <<>>, "", ~resp.exc, resp.status)
        original == IF json_loads(resp.text) = ValueError THEN ValueError
                    ELSE json_dumps(json_loads(resp.text))
        new == strip(ed.text)
        seeded == <<get, E0("mktemp"), E0("write")>>
        Run(out, lg, tmp) == [outcome |-> out, log |-> lg, temp |-> tmp]
    IN  IF resp.exc THEN Run(Error, <<get, Printed(Error)>>, "none")
        ELSE IF resp.status # HTTP_OK
        THEN Run(Outcome("FetchFailure", resp.status, resp.text),
                 <<get, Printed(Outcome("FetchFailure", resp.status, resp.text))>>,
                 "none")
        ELSE IF original = ValueError THEN Run(Error, <<get, Printed(Error)>>, "none")
        ELSE IF fs = "create_fails" THEN Run(Error, <<get, Printed(Error)>>, "none")
        ELSE IF fs = "write_fails"
        THEN Run(Error, <<get, E0("mktemp"), Printed(Error)>>, "exists")
        ELSE IF ed.kind = "launch_fails"
        THEN Run(Error, seeded \o <<Failed("editor"), E0("unlink"), Printed(Error)>>,
                 "gone")
        ELSE IF ed.kind \in {"file_removed", "read_fails"}
        THEN Run(Error,
                 seeded \o <<E0("editor"), Failed("read"), E0("unlink"), Printed(Error)>>,
                 "gone")
        ELSE IF original = new
        THEN Run(Outcome("NoChange", 0, <<>>),
                 seeded \o <<E0("editor"), E0("read"),
                             Printed(Outcome("NoChange", 0, <<>>)), E0("unlink")>>,
                 "gone")
        ELSE IF lower(strip(line)) # <<"y">>
        THEN Run(Outcome("Discarded", 0, <<>>),
                 seeded \o <<E0("editor"), E0("read"), E0("prompt"),
                             Ev("answer", line, <<>>, "", TRUE, 0),
                             Printed(Outcome("Discarded", 0, <<>>)), E0("unlink")>>,
                 "gone")
        ELSE IF put.exc
        THEN Run(Error,
                 seeded \o <<E0("editor"), E0("read"), E0("prompt"),
                             Ev("answer", line, <<>>, "", TRUE, 0),
                             edit_categories_put(new, put), E0("unlink"), Printed(Error)>>,
                 "gone")
        ELSE Run(Outcome("Pushed", put.status, put.text),
                 seeded \o <<E0("editor"), E0("read"), E0("prompt"),
                             Ev("answer", line, <<>>, "", TRUE, 0),
                             edit_categories_put(new, put),
                             Printed(Outcome("Pushed", put.status, put.text)),
                             E0("unlink")>>,
                 "gone")

\* The inputs of the run in progress: those it has consumed and, for those
\* it has not reached, values that take another flow through each of its
\* remaining branches: every editor failure, a text equal to each form of
\* the original content and one that differs, yes and no, a PUT that
\* raises, succeeds and fails.
EditorChoices ==
    IF SeenEditorResults # {} THEN SeenEditorResults
    ELSE [kind : {"launch_fails", "file_removed", "read_fails"}, text : {<<>>}]
            \cup [kind : {"ok"}, text : {<<>>, <<"0">>, strip(log[1].a)}]
AnswerChoices == IF SeenAnswers = {} THEN {<<"y">>, <<"n">>} ELSE SeenAnswers
PutChoices ==
    IF Events("put") # {} THEN {SeenPutResponse}
    ELSE {Raised, [exc |-> FALSE, status |-> HTTP_OK, text |-> <<>>],
          [exc |-> FALSE, status |-> 500, text |-> <<"x">>]}

CallNames(l) == [i \in 1..Len(l) |-> l[i].ev]
SameRun(s, t) ==
    /\ s.outcome.kind = t.outcome.kind
    /\ s.temp = t.temp
    /\ CallNames(s.log) = CallNames(t.log)

\* The run of the flow in progress, as its own transcription gives it.
RunOf(f, et, resp, fs, ed, line, put) ==
    IF f = "read_entry" THEN read_entry(et, resp, fs, ed, line, put)
    ELSE IF f = "edit_transactions" THEN edit_transactions(resp, fs, ed, line, put)
    ELSE edit_categories(resp, fs, ed, line, put)

\* C15 as stated: a finished run of any of the three flows is, for the same
\* fetch status, fetch body, file results, editor result and confirmation
\* input, a run of each of the three functions: same outcome kind, same
\* temporary-file state, same sequence of calls.
C15_AsStated ==
    (Reconciling /\ pc = "done")
        => \A fs \in SeenFileResults, ed \in EditorChoices, line \in AnswerChoices,
              put \in PutChoices :
             LET r1 == read_entry(entry_type, SeenResponse, fs, ed, line, put)
                 r2 == edit_transactions(SeenResponse, fs, ed, line, put)
                 r3 == edit_categories(SeenResponse, fs, ed, line, put)
             IN  SameRun(r1, r2) /\ SameRun(r2, r3)

\* C15 amended: read_entry and edit_transactions always run alike; the three
\* run alike when the GET fails, and when it succeeds and edit_categories
\* derives from the body the original_content the other two derive; when
\* the body is not JSON, edit_categories ends with the error report after
\* the GET, with no temporary file.  The finished run the program is in is
\* the run its own function gives for the inputs it consumed.
C15_ThreeFunctionsOneMachine ==
    (Reconciling /\ pc = "done")
        => \A fs \in SeenFileResults, ed \in EditorChoices, line \in AnswerChoices,
              put \in PutChoices :
             LET body == log[1].a
                 r1 == read_entry(entry_type, SeenResponse, fs, ed, line, put)
                 r2 == edit_transactions(SeenResponse, fs, ed, line, put)
                 r3 == edit_categories(SeenResponse, fs, ed, line, put)
                 mine == RunOf(flow, entry_type, SeenResponse, fs, ed, line, put)
             IN  /\ SameRun(r1, r2)
                 /\ (~FetchedOk \/ (json_loads(body) # ValueError
                                    /\ json_dumps(json_loads(body)) = strip(body)))
                       => SameRun(r2, r3)
                 /\ (FetchedOk /\ json_loads(body) = ValueError)
                       => /\ r3.outcome = Error
                          /\ r3.temp = "none"
                          /\ CallNames(r3.log) = <<"get", "print">>
                 /\ mine.outcome = outcome
                 /\ mine.log = log
                 /\ mine.temp = temp

C15_Witness ==
    /\ flow = "edit_categories"
    /\ pc = "done"
    /\ outcome.kind = "Pushed"
    /\ log[1].a = <<"0", " ">>

\* ---------------------------------------------------------------- C16 --
\* C16: a resolution holds exactly one taxonomy fetch, the first call of
\* spend_entry; every accepted numeric choice names the node at that
\* position of the snapshot fetched then, and "create new" is the position
\* after its last node, also after create calls have failed or succeeded.
C16_ListsComeFromTheSnapshot ==
    Resolving =>
        /\ Events("get_categories") = {1}
        /\ \A i \in Events("choose_category") :
             IF log[i].t = "new" THEN log[i].n = Len(entry0) + 1
             ELSE /\ log[i].n \in 1..Len(entry0)
                  /\ log[i].a = entry0[log[i].n].name
        /\ \A j \in Events("choose_subcategory") :
             \E k \in 1..Len(entry0) :
                /\ entry0[k].name = log[j].a
                /\ IF log[j].t = "new" THEN log[j].n = Len(entry0[k].subs) + 1
                   ELSE /\ log[j].n \in 1..Len(entry0[k].subs)
                        /\ log[j].b = entry0[k].subs[log[j].n]

C16_Witness ==
    /\ Resolving
    /\ pc = "Resolved"
    /\ failed >= 1
    /\ Len(entry0) = 2
    /\ \E i \in Events("choose_category") : log[i].n = 2 /\ log[i].t = ""
    /\ \E j \in Events("choose_subcategory") : log[j].t = "new"

C18_OldCategoriesKeepTheirLists ==
    (Resolving /\ \E i \in Events("choose_category") : log[i].t = "new")
        => \A k \in 1..Len(entry0) :
              /\ HasKey(categories, entry0[k].name)
              /\ Get(categories, entry0[k].name) = entry0[k].subs

\* ---------------------------------------------------------------- C19 --
\* C19: the PUT is issued exactly when the line typed at the prompt, with
\* surrounding whitespace removed, is y or Y; any other line ends the run
\* with Discarded, and the prompt is shown and answered once.
C19_OnlyYPushes ==
    Reconciling =>
        \A k \in Events("answer") :
            LET yes == strip(log[k].a) \in {<<"y">>, <<"Y">>}
            IN  /\ Events("answer") = {k}
                /\ Cardinality(Events("prompt")) = 1
                /\ pc = "done"
                /\ yes <=> Events("put") # {}
                /\ ~yes => outcome.kind = "Discarded"

C19_Witness ==
    /\ Reconciling
    /\ pc = "done"
    /\ outcome.kind = "Discarded"
    /\ \E k \in Events("answer") : log[k].a = <<"y", "e", "s">>

\* ---------------------------------------------------------------- C20 --
\* C20: when the taxonomy GET raises or returns a status other than 200,
\* spend_entry goes on with an empty snapshot: the resolver is only ever at
\* the two mandatory name prompts, no numeric choice is read, and the run
\* ends only by posting.  The entry is posted at most once, after the
\* resolver has returned, with the pair it returned.
C20_FetchFailureGoesOn ==
    Resolving =>
        /\ ~log[1].ok =>
              /\ entry0 = <<>>
              /\ pc \in {"CreateCategoryEmpty", "CreateSubcategoryEmpty", "Resolved", "done"}
              /\ Events("choose_category") = {}
              /\ Events("choose_subcategory") = {}
              /\ ~invalid
              /\ pc = "done" => Events("post") # {}
        /\ Cardinality(Events("post")) <= 1
        /\ \A p \in Events("post") :
              /\ pc = "done"
              /\ log[p].a = category
              /\ log[p].b = subcategory
              /\ \E j \in 1..(p - 1) :
                    /\ log[j].ev \in {"add_subcategory", "choose_subcategory"}
                    /\ log[j].ok
                    /\ log[j].t = ""
                    /\ log[j].b = subcategory

C20_Witness ==
    /\ Resolving
    /\ pc = "done"
    /\ ~log[1].ok
    /\ log[1].n = 500
    /\ remote # <<>>
    /\ Events("post") # {}

\* ---------------------------------------------------------------- C21 --
\* C21: a create call succeeds exactly when it returned status 201; on any
\* other status (200 included) and on a transport exception the resolver
\* stays at the same name prompt, the snapshot and the pair resolved so far
\* are as they were, and nothing is returned; on 201 it leaves the prompt.
C21_OnlyCreatedSucceeds ==
    [][ (Resolving /\ flow' = flow /\ CreateCalls(log') = CreateCalls(log) + 1) =>
          LET call == log'[Len(log')]
          IN  /\ call.ev \in {"add_category", "add_subcategory"}
              /\ call.ok <=> call.n = HTTP_CREATED
              /\ call.n # HTTP_CREATED =>
                    /\ pc' = pc
                    /\ UNCHANGED <<categories, category, subcategories, subcategory>>
              /\ call.n = HTTP_CREATED =>
                    /\ pc' # pc
                    /\ IF call.ev = "add_category"
                       THEN category' = call.a /\ pc' # "Resolved"
                       ELSE subcategory' = call.b /\ pc' = "Resolved"
      ]_vars

C21_Witness ==
    /\ Resolving
    /\ pc = "CreateSubcategoryNew"
    /\ failed = 2
    /\ \E i \in Events("add_subcategory") : ~log[i].ok /\ log[i].n = HTTP_OK
    /\ \E j \in Events("add_subcategory") : ~log[j].ok /\ log[j].n = 0
    /\ categories = entry0

=============================================================================
